---- MODULE Spec2Model ----
(***************************************************************************)
(* Model of the kinetic Monte Carlo lattice engine, class Lattice of       *)
(* src/lattice.py.  One Lattice instance is modelled: its fields are the   *)
(* variables, its public methods are the actions.  Rates are naturals, so  *)
(* a uniform draw in [0, total_rate) is represented by the integer part of *)
(* the draw: every comparison of the code is against an integer boundary.  *)
(***************************************************************************)
EXTENDS Integers, Sequences, FiniteSets, TLC

\* ---------------------------------------------------------------- bounds
\* lattice_length of the modelled instance (the sites are 0 .. N-1)
N == 3
\* under SpecStep simulate_step is not called once step_count has reached
\* MaxSteps
MaxSteps == 3
\* under Spec no method but reset() is called once MaxCalls calls were made
\* since the last reset()
MaxCalls == 3
\* the step_limit values tried are 0 .. MaxLimit
MaxLimit == 2

\* ------------------------------------------------------------- encodings
\* Python's None where the code holds a site, an index or nothing
None == 0 - 1
\* no exception was raised / no event was chosen / nothing was returned
Nothing == "none"
\* the lattice array's codes as execute_event, reset and
\* visualization_image use them
EMPTY == 0
RNAP == 1
TF == 2

Sites == 0 .. (N - 1)
\* the values a rate constant is given: zero, and two positive values
Rates == { 0, 1, 2 }
\* the waiting times prng.exponential is taken to draw (never negative)
Taus == { 0, 1 }
\* the values the step_limit argument is given
StepLimits == 0 .. MaxLimit

VARIABLES
    config,             \* the constructor's parameters (never assigned again)
    step_limit,         \* self.step_limit (never assigned again)
    lattice,            \* self.lattice: site -> code
    lattice_age,        \* self.lattice_age
    step_count,         \* self.step_count
    tf_position,        \* self.tf_position: a site or None
    rnap_positions,     \* self.rnap_positions: list of sites
    events,             \* self.events: the last catalog built
    tf_path,            \* self.tf_path: list of <<age, tf_position>>
    lattice_history,    \* self.lattice_history: list of ages; every entry
                        \* holds a reference to the one array self.lattice
    tf_point_logs,      \* tf_detach_points, tf_attach_points, tf_block_points
    last_call,          \* history: the last method called, the exception
                        \* it raised, the event execute_event applied, the
                        \* value returned and collect_rates' total rate
    run,                \* simulate_to_target's position in its loop, with
                        \* the step counter it was entered at
    events_applied,     \* history: events executed since the last reset()
    calls,              \* history: methods called since the last reset()
    this,               \* the Lattice object whose fields the variables
                        \* above hold: 0 is the instance the caller holds,
                        \* t > 0 the temporary_lattice of trial t
    others,             \* the fields of the other Lattice objects alive
    fpt,                \* first_passage_time_list: its position, its
                        \* argument, the trial scheduled, each trial's
                        \* position and result, and what it returned
    replay,             \* two instances fed the same draws: whose turn it
                        \* is and the draws the first one consumed
    tick                \* the fixed-tick script crowded_environment.py:
                        \* its position in the loop body, its variables
                        \* steps, lattice, rnap_positions, tf_position,
                        \* and (history) what each particle did and which
                        \* steps of the loop body ran in the current tick

\* the variables no method of one Lattice object assigns: the ones that
\* hold more than one Lattice object, and the fixed-tick script's
harness == << this, others, fpt, replay, tick >>

vars == << config, step_limit, lattice, lattice_age, step_count,
           tf_position, rnap_positions, events, tf_path, lattice_history,
           tf_point_logs, last_call, run, events_applied, calls, harness >>

\* the record kept of a call: what it raised (Nothing if it returned), the
\* event it executed, the value it returned as << kind, value >> and the
\* total rate collect_rates returned to it
Call(op, raised, event, returned, total_rate) ==
    [ op |-> op, raised |-> raised, event |-> event, returned |-> returned,
      total_rate |-> total_rate ]

\* a call that returned nothing (or raised)
NoValue == << "nothing", None >>
\* a boolean result
Bool(b) == << "bool", IF b THEN 1 ELSE 0 >>

\* --------------------------------------------------------- pure helpers
\* site_empty as it would be if it checked the bounds only
site_empty_bounds_only(site_number) ==
    ~ (site_number < 0 \/ site_number >= N)

\* Lattice.site_empty: out of bounds counts as occupied
site_empty(site_number) ==
    IF site_number < 0 \/ site_number >= N
    THEN FALSE
    ELSE lattice[site_number] = EMPTY

\* an entry of self.events; fields an event kind does not carry are None
Event(type, rate, rnap_pos, rnap_index, possible_sites) ==
    [ type |-> type, rate |-> rate, rnap_pos |-> rnap_pos,
      rnap_index |-> rnap_index, possible_sites |-> possible_sites,
      cum_rate |-> None ]

\* the RNAP attachment as it would be if site 0 were not looked at
RnapAttachEvents_unconditional ==
    << Event("rnap_attach", config.rnap_attach_rate, None, None, None) >>

\* collect_rates, the RNAP attachment at site 0
RnapAttachEvents ==
    IF site_empty(0)
    THEN << Event("rnap_attach", config.rnap_attach_rate, None, None, None) >>
    ELSE << >>

\* collect_rates, the events of the RNAP tracked at 0-based index rnap_index
RnapEventsOf(rnap_index) ==
    LET position == rnap_positions[rnap_index + 1]
        new_pos_right == position + 1
        new_pos_left == position - 1
    IN  (IF site_empty(new_pos_right)
         THEN << Event("rnap_move_right", config.rnap_move_rate,
                       position, rnap_index, None) >>
         ELSE << >>)
        \o
        (IF site_empty(new_pos_left)
         THEN << Event("rnap_move_left", config.rnap_move_rate,
                       position, rnap_index, None) >>
         ELSE << >>)
        \o
        (IF new_pos_right >= N
         THEN << Event("rnap_detach", config.rnap_detach_rate,
                       position, rnap_index, None) >>
         ELSE << >>)

\* collect_rates, the loop over enumerate(self.rnap_positions)
RECURSIVE RnapEventsFrom(_)
RnapEventsFrom(rnap_index) ==
    IF rnap_index >= Len(rnap_positions)
    THEN << >>
    ELSE RnapEventsOf(rnap_index) \o RnapEventsFrom(rnap_index + 1)

TfEvents_moves_unchecked ==
    IF tf_position = None
    THEN LET empty_sites == { s \in Sites : lattice[s] = EMPTY }
         IN  IF Cardinality(empty_sites) > 0
             THEN << Event("tf_attach", config.tf_attach_rate,
                           None, None, empty_sites) >>
             ELSE << >>
    ELSE (IF tf_position - 1 >= 0
          THEN << Event("tf_left", config.tf_move_rate, None, None, None) >>
          ELSE << >>)
         \o
         (IF tf_position + 1 < N
          THEN << Event("tf_right", config.tf_move_rate, None, None, None) >>
          ELSE << >>)
         \o
         << Event("tf_detach", config.tf_detach_rate, None, None, None) >>

\* collect_rates, the TF branch
TfEvents ==
    IF tf_position = None
    THEN LET empty_sites == { s \in Sites : lattice[s] = EMPTY }
         IN  IF Cardinality(empty_sites) > 0
             THEN << Event("tf_attach", config.tf_attach_rate,
                           None, None, empty_sites) >>
             ELSE << >>
    ELSE (IF site_empty(tf_position - 1)
          THEN << Event("tf_left", config.tf_move_rate, None, None, None) >>
          ELSE << >>)
         \o
         (IF site_empty(tf_position + 1)
          THEN << Event("tf_right", config.tf_move_rate, None, None, None) >>
          ELSE << >>)
         \o
         << Event("tf_detach", config.tf_detach_rate, None, None, None) >>

\* the event list as it would be if the order of its three parts differed
\* from one Lattice object to the next
EnumeratedEvents_order_by_object ==
    IF this = 0
    THEN RnapAttachEvents \o RnapEventsFrom(0) \o TfEvents
    ELSE TfEvents \o RnapEventsFrom(0) \o RnapAttachEvents

\* collect_rates, the event list before the cumulative rates are assigned
EnumeratedEvents == RnapAttachEvents \o RnapEventsFrom(0) \o TfEvents

TotalRate_of_last(evs) ==
    IF evs = << >> THEN 0 ELSE evs[Len(evs)].rate

\* collect_rates, total_rate: the sum of the rates in list order
RECURSIVE TotalRate(_)
TotalRate(evs) ==
    IF evs = << >> THEN 0
    ELSE TotalRate(SubSeq(evs, 1, Len(evs) - 1)) + evs[Len(evs)].rate

\* collect_rates, the value of prev_cumsum after the first i events:
\*     event["cum_rate"] = event["rate"] + prev_cumsum
\*     prev_cumsum += event["cum_rate"]
RECURSIVE PrevCumsum(_, _)
PrevCumsum(evs, i) ==
    IF i = 0 THEN 0
    ELSE LET prev_cumsum == PrevCumsum(evs, i - 1)
         IN  prev_cumsum + (evs[i].rate + prev_cumsum)

\* the cum_rate as it would be if nothing were accumulated
CumRate_own_rate(evs, i) == evs[i].rate

\* collect_rates, the cum_rate given to the i-th event (1-based)
CumRate(evs, i) == evs[i].rate + PrevCumsum(evs, i - 1)

\* collect_rates, the event list as it is left in self.events on return
WithCumRates(evs) ==
    [ i \in 1 .. Len(evs) |-> [ evs[i] EXCEPT !.cum_rate = CumRate(evs, i) ] ]

\* execute_event, the selection test of one event against the draw
Selects(random_number, cum_rate) == random_number < cum_rate

\* execute_event, the scan: the 1-based index of the first event that the
\* draw selects, 0 when the loop ends without a break
ChosenIndex(evs, random_number) ==
    LET hits == { i \in 1 .. Len(evs) : Selects(random_number, evs[i].cum_rate) }
    IN  IF hits = {} THEN 0
        ELSE CHOOSE i \in hits : \A j \in hits : i <= j

on_target_by_array == lattice[config.target_site] # EMPTY

\* Lattice.on_target
on_target == tf_position = config.target_site

\* list.pop() as it would be without its argument: the last entry goes
Pop_last(list, index) == SubSeq(list, 1, Len(list) - 1)

\* Lattice.on_target called as a method of its own: it returns the
\* comparison and assigns nothing
OnTargetCalled ==
    /\ last_call' = Call("on_target", Nothing, Nothing, Bool(on_target), None)
    /\ calls' = calls + 1
    /\ UNCHANGED << config, lattice, lattice_age, step_count, tf_position,
                    rnap_positions, events, tf_path, lattice_history,
                    tf_point_logs, events_applied >>

\* list.pop(index) with a 0-based index
Pop(list, index) ==
    SubSeq(list, 1, index) \o SubSeq(list, index + 2, Len(list))

\* ---------------------------------------------------------------- Init
\* the rates of a configuration
RatesOf(c) ==
    { c.rnap_attach_rate, c.rnap_move_rate, c.rnap_detach_rate,
      c.tf_attach_rate, c.tf_detach_rate, c.tf_move_rate }

\* the constructor's arguments: every combination of the rate values with
\* logging off, every combination of the rates 0 and 1 with logging on;
\* target_site is left to its default, lattice_length // 2
Configs ==
    { c \in [ target_site : { N \div 2 },
              rnap_attach_rate : Rates, rnap_move_rate : Rates,
              rnap_detach_rate : Rates,
              tf_attach_rate : Rates, tf_detach_rate : Rates,
              tf_move_rate : Rates,
              logging : BOOLEAN ] :
        c.logging => RatesOf(c) \subseteq { 0, 1 } }

\* simulate_to_target is not running
Idle == [ pc |-> "idle", entry_count |-> 0, fresh |-> FALSE ]

\* the state reset() leaves, as __init__ ends with a call of it
Constructed ==
    /\ run = Idle
    /\ lattice = [ s \in Sites |-> EMPTY ]
    /\ lattice_age = 0
    /\ step_count = 0
    /\ tf_position = None
    /\ rnap_positions = << >>
    /\ events = << >>
    /\ tf_path = << >>
    /\ lattice_history = << >>
    /\ tf_point_logs = [ tf_detach_points |-> << >>,
                         tf_attach_points |-> << >>,
                         tf_block_points |-> << >> ]
    /\ last_call = Call("__init__", Nothing, Nothing, NoValue, None)
    /\ events_applied = 0
    /\ calls = 0

\* no Lattice object but the one the variables hold
NoObjects == [ o \in { } |-> 0 ]

\* first_passage_time_list is not running
FptIdle ==
    [ pc |-> "idle", initial_TF_position |-> None, active |-> 0,
      trials |-> << >>, returned |-> << >>, raised |-> Nothing ]

\* a freshly constructed Lattice object: the fields __init__ and reset set,
\* and no call made on it
FreshObject ==
    [ lattice |-> [ s \in Sites |-> EMPTY ],
      lattice_age |-> 0,
      step_count |-> 0,
      tf_position |-> None,
      rnap_positions |-> << >>,
      events |-> << >>,
      tf_path |-> << >>,
      lattice_history |-> << >>,
      tf_point_logs |-> [ tf_detach_points |-> << >>,
                          tf_attach_points |-> << >>,
                          tf_block_points |-> << >> ],
      last_call |-> Call("__init__", Nothing, Nothing, NoValue, None),
      run |-> Idle,
      events_applied |-> 0,
      calls |-> 0 ]

\* no draws are being replayed
ReplayIdle == [ turn |-> "none", draws |-> << >> ]

\* the fixed-tick script before a simulation's loop: the lattice,
\* rnap_positions, tf_position and steps of lines 35-39, and no first
\* passage time recorded
TickIdle ==
    [ pc |-> "while",
      steps |-> 0,
      lattice |-> [ s \in Sites |-> EMPTY ],
      rnap_positions |-> << >>,
      new_rnap_positions |-> << >>,
      pos_index |-> 0,
      tf_position |-> None,
      first_passage_times |-> << >>,
      acted |-> << >>,
      resolved |-> << >> ]

\* the one instance the caller constructed, and no other; the fixed-tick
\* script is not run
Alone ==
    /\ this = 0
    /\ others = NoObjects
    /\ fpt = FptIdle
    /\ replay = ReplayIdle
    /\ tick = TickIdle

\* an instance of any configuration; where simulate_to_target is never
\* called step_limit is given one value
Init ==
    /\ config \in Configs
    /\ step_limit = MaxLimit
    /\ Constructed
    /\ Alone

\* ------------------------------------------------------------- reset()
\* reset as it would be if it left the RNAP trackers alone
reset_keeps_rnap_trackers ==
    /\ lattice' = [ s \in Sites |-> EMPTY ]
    /\ lattice_age' = 0
    /\ step_count' = 0
    /\ tf_position' = None
    /\ events' = << >>
    /\ tf_path' = << >>
    /\ lattice_history' = << >>
    /\ tf_point_logs' = [ tf_detach_points |-> << >>,
                          tf_attach_points |-> << >>,
                          tf_block_points |-> << >> ]
    /\ last_call' = Call("reset", Nothing, Nothing, NoValue, None)
    /\ events_applied' = 0
    /\ calls' = 0
    /\ UNCHANGED << config, rnap_positions >>

\* reset as it would be if it put the logging flag back to its default
reset_clears_logging ==
    /\ lattice' = [ s \in Sites |-> EMPTY ]
    /\ lattice_age' = 0
    /\ step_count' = 0
    /\ tf_position' = None
    /\ rnap_positions' = << >>
    /\ events' = << >>
    /\ tf_path' = << >>
    /\ lattice_history' = << >>
    /\ tf_point_logs' = [ tf_detach_points |-> << >>,
                          tf_attach_points |-> << >>,
                          tf_block_points |-> << >> ]
    /\ last_call' = Call("reset", Nothing, Nothing, NoValue, None)
    /\ events_applied' = 0
    /\ calls' = 0
    /\ config' = [ config EXCEPT !.logging = FALSE ]

\* Lattice.reset
reset ==
    /\ lattice' = [ s \in Sites |-> EMPTY ]
    /\ lattice_age' = 0
    /\ step_count' = 0
    /\ tf_position' = None
    /\ rnap_positions' = << >>
    /\ events' = << >>
    /\ tf_path' = << >>
    /\ lattice_history' = << >>
    /\ tf_point_logs' = [ tf_detach_points |-> << >>,
                          tf_attach_points |-> << >>,
                          tf_block_points |-> << >> ]
    /\ last_call' = Call("reset", Nothing, Nothing, NoValue, None)
    /\ events_applied' = 0
    /\ calls' = 0
    /\ UNCHANGED config

\* ----------------------------------------------------- simulate_step()
\* the match statement as it would be if an RNAP move shifted every
\* tracker entry instead of the one at the event's rnap_index
ExecuteEvent_moves_every_tracker(event, site) ==
    CASE event.type = "rnap_attach" ->
            /\ rnap_positions' = Append(rnap_positions, 0)
            /\ lattice' = [ lattice EXCEPT ![0] = RNAP ]
            /\ UNCHANGED tf_position
      [] event.type = "rnap_move_left" ->
            /\ rnap_positions' =
                 [ i \in 1 .. Len(rnap_positions) |-> rnap_positions[i] - 1 ]
            /\ lattice' = [ lattice EXCEPT ![event.rnap_pos] = EMPTY,
                                           ![event.rnap_pos - 1] = RNAP ]
            /\ UNCHANGED tf_position
      [] event.type = "rnap_move_right" ->
            /\ rnap_positions' =
                 [ i \in 1 .. Len(rnap_positions) |-> rnap_positions[i] + 1 ]
            /\ lattice' = [ lattice EXCEPT ![event.rnap_pos] = EMPTY,
                                           ![event.rnap_pos + 1] = RNAP ]
            /\ UNCHANGED tf_position
      [] event.type = "rnap_detach" ->
            /\ rnap_positions' = Pop(rnap_positions, event.rnap_index)
            /\ lattice' = [ lattice EXCEPT ![event.rnap_pos] = EMPTY ]
            /\ UNCHANGED tf_position
      [] event.type = "tf_attach" ->
            /\ tf_position' = site
            /\ lattice' = [ lattice EXCEPT ![site] = TF ]
            /\ UNCHANGED rnap_positions
      [] event.type = "tf_left" ->
            /\ tf_position' = tf_position - 1
            /\ lattice' = [ lattice EXCEPT ![tf_position] = EMPTY,
                                           ![tf_position - 1] = TF ]
            /\ UNCHANGED rnap_positions
      [] event.type = "tf_right" ->
            /\ tf_position' = tf_position + 1
            /\ lattice' = [ lattice EXCEPT ![tf_position] = EMPTY,
                                           ![tf_position + 1] = TF ]
            /\ UNCHANGED rnap_positions
      [] event.type = "tf_detach" ->
            /\ tf_position' = None
            /\ lattice' = [ lattice EXCEPT ![tf_position] = EMPTY ]
            /\ UNCHANGED rnap_positions

\* execute_event, the match statement: what the chosen event does to the
\* lattice array and the trackers; site is the draw of prng.choice
ExecuteEvent(event, site) ==
    CASE event.type = "rnap_attach" ->
            /\ rnap_positions' = Append(rnap_positions, 0)
            /\ lattice' = [ lattice EXCEPT ![0] = RNAP ]
            /\ UNCHANGED tf_position
      [] event.type = "rnap_move_left" ->
            /\ rnap_positions' =
                 [ rnap_positions EXCEPT ![event.rnap_index + 1] = @ - 1 ]
            /\ lattice' = [ lattice EXCEPT ![event.rnap_pos] = EMPTY,
                                           ![event.rnap_pos - 1] = RNAP ]
            /\ UNCHANGED tf_position
      [] event.type = "rnap_move_right" ->
            /\ rnap_positions' =
                 [ rnap_positions EXCEPT ![event.rnap_index + 1] = @ + 1 ]
            /\ lattice' = [ lattice EXCEPT ![event.rnap_pos] = EMPTY,
                                           ![event.rnap_pos + 1] = RNAP ]
            /\ UNCHANGED tf_position
      [] event.type = "rnap_detach" ->
            /\ rnap_positions' = Pop(rnap_positions, event.rnap_index)
            /\ lattice' = [ lattice EXCEPT ![event.rnap_pos] = EMPTY ]
            /\ UNCHANGED tf_position
      [] event.type = "tf_attach" ->
            /\ tf_position' = site
            /\ lattice' = [ lattice EXCEPT ![site] = TF ]
            /\ UNCHANGED rnap_positions
      [] event.type = "tf_left" ->
            /\ tf_position' = tf_position - 1
            /\ lattice' = [ lattice EXCEPT ![tf_position] = EMPTY,
                                           ![tf_position - 1] = TF ]
            /\ UNCHANGED rnap_positions
      [] event.type = "tf_right" ->
            /\ tf_position' = tf_position + 1
            /\ lattice' = [ lattice EXCEPT ![tf_position] = EMPTY,
                                           ![tf_position + 1] = TF ]
            /\ UNCHANGED rnap_positions
      [] event.type = "tf_detach" ->
            /\ tf_position' = None
            /\ lattice' = [ lattice EXCEPT ![tf_position] = EMPTY ]
            /\ UNCHANGED rnap_positions

\* simulate_step, the step counter after the call's first statement
StepCountAfter(count) == count + 1

\* the elapsed time as it would be if the step assigned the waiting time
\* instead of adding it
AgeAfter_assigned(age, tau) == tau

\* simulate_step, the elapsed time after the waiting time tau is added
AgeAfter(age, tau) == age + tau

SimulateStepZeroRate_tolerated ==
    LET enumerated == EnumeratedEvents
    IN  /\ TotalRate(enumerated) = 0
        /\ step_count' = StepCountAfter(step_count)
        /\ events' = enumerated
        /\ last_call' = Call("simulate_step", Nothing, Nothing,
                             Bool(on_target), 0)
        /\ calls' = calls + 1
        /\ UNCHANGED << config, lattice, lattice_age, tf_position,
                        rnap_positions, tf_path, lattice_history,
                        tf_point_logs, events_applied >>

\* simulate_step when collect_rates raises "The lattice cannot do anything":
\* the counter is already incremented and self.events already replaced
SimulateStepZeroRate ==
    LET enumerated == EnumeratedEvents
    IN  /\ TotalRate(enumerated) = 0
        /\ step_count' = StepCountAfter(step_count)
        /\ events' = enumerated
        /\ last_call' = Call("simulate_step", "ZeroTotalRate", Nothing,
                             NoValue, None)
        /\ calls' = calls + 1
        /\ UNCHANGED << config, lattice, lattice_age, tf_position,
                        rnap_positions, tf_path, lattice_history,
                        tf_point_logs, events_applied >>

\* simulate_step from the return of collect_rates on, with the catalog and
\* total rate it built and the values the draws gave: the waiting time tau,
\* the event draw random_number (below the total rate), execute_event with
\* the site prng.choice drew (None when no site is drawn), the logging and
\* the on_target() result.  (A draw that selects no event would raise
\* 'No even was chosen'; ChosenIndex is never 0 for a draw below the total
\* rate, so that path has no action.)
StepWith(catalog, total_rate, tau, random_number, site) ==
    LET chosen == ChosenIndex(catalog, random_number)
    IN  /\ total_rate > 0
        /\ UNCHANGED config
        /\ random_number \in 0 .. (total_rate - 1)
        /\ chosen # 0
        /\ site \in (IF catalog[chosen].type = "tf_attach"
                      THEN catalog[chosen].possible_sites
                      ELSE { None })
        /\ ExecuteEvent(catalog[chosen], site)
        /\ lattice_age' = AgeAfter(lattice_age, tau)
        /\ last_call' = Call("simulate_step", Nothing, catalog[chosen],
                             Bool(on_target'), total_rate)
        /\ events' = catalog
        /\ step_count' = StepCountAfter(step_count)
        /\ events_applied' = events_applied + 1
        /\ calls' = calls + 1
        /\ IF config.logging
           THEN /\ tf_path' = Append(tf_path, << lattice_age', tf_position' >>)
                /\ lattice_history' = Append(lattice_history, lattice_age')
           ELSE UNCHANGED << tf_path, lattice_history >>
        /\ UNCHANGED tf_point_logs

\* simulate_step when it returns, its generator giving these draws
SimulateStepDrawn(tau, random_number, site) ==
    LET enumerated == EnumeratedEvents
    IN  StepWith(WithCumRates(enumerated), TotalRate(enumerated),
                 tau, random_number, site)

\* simulate_step when it returns, whatever its generator draws
SimulateStepDone ==
    LET enumerated == EnumeratedEvents
        total_rate == TotalRate(enumerated)
        catalog == WithCumRates(enumerated)
    IN  \E tau \in Taus, random_number \in 0 .. (total_rate - 1) :
           \E site \in (IF catalog[ChosenIndex(catalog, random_number)].type
                                                             = "tf_attach"
                        THEN Sites ELSE { None }) :
              StepWith(catalog, total_rate, tau, random_number, site)

\* the array of the k-th entry of self.lattice_history: line 111 appends
\* (self.lattice_age, self.lattice), the array object itself and no copy,
\* and self.lattice is bound to a new array by reset() only, which empties
\* the history too; so every entry's array is the current self.lattice
LoggedLattice(k) == lattice

\* the k-th entry of self.lattice_history, read by value
HistoryEntry(k) == << lattice_history[k], LoggedLattice(k) >>

\* Lattice.simulate_step
simulate_step == SimulateStepZeroRate \/ SimulateStepDone

\* ---------------------------------------- place_particle / remove_particle
\* the particle and position arguments tried: the valid ones and one
\* value beyond each end
Particles == (0 - 1) .. 3
Positions == (0 - 1) .. (N + 1)

\* place_particle, the position check: 0 <= position <= len(self.lattice)
PositionAccepted(position) == 0 <= position /\ position <= N

\* place_particle, the tracker cleared for the code found at the site:
\* the value of self.tf_position after the first match statement
TfAfterClear(position) ==
    IF lattice[position] = 1 THEN None ELSE tf_position

\* place_particle, case 2 of the first match statement: the loop reaches
\* self.rnap_positions.pop[rnap_index], which subscripts a method
PopSubscripted(position) ==
    /\ lattice[position] = 2
    /\ \E i \in 1 .. Len(rnap_positions) : rnap_positions[i] = position

\* a call that raises before it assigns anything
RaisesUnchanged(op, exception) ==
    /\ last_call' = Call(op, exception, Nothing, NoValue, None)
    /\ calls' = calls + 1
    /\ UNCHANGED << config, lattice, lattice_age, step_count, tf_position,
                    rnap_positions, events, tf_path, lattice_history,
                    tf_point_logs, events_applied >>

\* Lattice.place_particle, called as method op
PlaceParticle(op, particle, position) ==
    IF ~ (0 <= particle /\ particle <= 2)
    THEN RaisesUnchanged(op, "NotAValidParticle")
    ELSE IF ~ PositionAccepted(position)
    THEN RaisesUnchanged(op, "OutsideOfTheLattice")
    ELSE IF position >= N
    THEN RaisesUnchanged(op, "IndexError")
    ELSE IF PopSubscripted(position)
    THEN RaisesUnchanged(op, "TypeError")
    ELSE IF particle = 1 /\ TfAfterClear(position) # None
    THEN \* raised after the site and its tracker were cleared
         /\ tf_position' = TfAfterClear(position)
         /\ lattice' = [ lattice EXCEPT ![position] = 0 ]
         /\ last_call' = Call(op, "MoreThanOneTF", Nothing, NoValue, None)
         /\ calls' = calls + 1
         /\ UNCHANGED << config, lattice_age, step_count, rnap_positions,
                         events, tf_path, lattice_history, tf_point_logs,
                         events_applied >>
    ELSE /\ tf_position' = IF particle = 1 THEN position
                           ELSE TfAfterClear(position)
         /\ rnap_positions' = IF particle = 2
                              THEN Append(rnap_positions, position)
                              ELSE rnap_positions
         /\ lattice' = [ lattice EXCEPT ![position] = particle ]
         /\ last_call' = Call(op, Nothing, Nothing, NoValue, None)
         /\ calls' = calls + 1
         /\ UNCHANGED << config, lattice_age, step_count, events, tf_path,
                         lattice_history, tf_point_logs, events_applied >>

\* Lattice.place_particle
place_particle ==
    \E particle \in Particles, position \in Positions :
        PlaceParticle("place_particle", particle, position)

\* Lattice.remove_particle
remove_particle ==
    \E position \in Positions : PlaceParticle("remove_particle", 0, position)

\* ------------------------------------------------------ simulate_to_target
\* the value simulate_to_target returns when it gives up
Sentinel == << "None", None >>
\* the elapsed time as a result
Time(age) == << "time", age >>
\* simulate_to_target is in its loop and returned nothing yet
Pending == << "pending", None >>

StepLimitExceeded_one_late(count, limit) == count > limit + 1

\* the test after a step that did not reach the target
StepLimitExceeded(count, limit) == count > limit

SimulateToTargetBegin_always_steps ==
    /\ run.pc = "idle"
    /\ run' = [ pc |-> "loop", entry_count |-> step_count,
                fresh |-> (calls = 0) ]
    /\ last_call' = Call("simulate_to_target", Nothing, Nothing, Pending, None)
    /\ calls' = calls + 1
    /\ UNCHANGED << config, step_limit, lattice, lattice_age, step_count,
                    tf_position, rnap_positions, events, tf_path,
                    lattice_history, tf_point_logs, events_applied >>

\* simulate_to_target up to its loop: the elapsed time is returned at once
\* if the TF is on the target, else the loop is entered
SimulateToTargetBegin ==
    /\ run.pc = "idle"
    /\ IF on_target
       THEN /\ run' = [ pc |-> "idle", entry_count |-> step_count,
                        fresh |-> (calls = 0) ]
            /\ last_call' = Call("simulate_to_target", Nothing, Nothing,
                                 Time(lattice_age), None)
       ELSE /\ run' = [ pc |-> "loop", entry_count |-> step_count,
                        fresh |-> (calls = 0) ]
            /\ last_call' = Call("simulate_to_target", Nothing, Nothing,
                                 Pending, None)
    /\ calls' = calls + 1
    /\ UNCHANGED << config, step_limit, lattice, lattice_age, step_count,
                    tf_position, rnap_positions, events, tf_path,
                    lattice_history, tf_point_logs, events_applied >>

\* the loop's call of simulate_step
SimulateToTargetStep ==
    /\ run.pc = "loop"
    /\ simulate_step
    /\ run' = [ run EXCEPT !.pc = "test" ]
    /\ UNCHANGED step_limit

\* what simulate_to_target does once its call of simulate_step is over
LoopEnds(result) ==
    /\ run.pc = "test"
    /\ run' = [ run EXCEPT !.pc = "idle" ]
    /\ last_call' = result
    /\ UNCHANGED << config, step_limit, lattice, lattice_age, step_count,
                    tf_position, rnap_positions, events, tf_path,
                    lattice_history, tf_point_logs, events_applied, calls >>

\* the seeding get_single_first_passage_time does before it calls
\* simulate_to_target: a TF is placed on a site of the lattice
SeedTF ==
    \E initial_TF_position \in Sites :
        PlaceParticle("place_particle", 1, initial_TF_position)

\* the exception of simulate_step leaves simulate_to_target
SimulateToTargetRaise ==
    /\ last_call.raised # Nothing
    /\ LoopEnds(Call("simulate_to_target", last_call.raised, Nothing,
                     NoValue, None))

SimulateToTargetReturn_after_any_step ==
    /\ last_call.raised = Nothing
    /\ LoopEnds(Call("simulate_to_target", Nothing, Nothing,
                     Time(lattice_age), None))

\* simulate_step returned True: the loop is left and the elapsed time
\* returned
SimulateToTargetReturn ==
    /\ last_call.raised = Nothing
    /\ last_call.returned = Bool(TRUE)
    /\ LoopEnds(Call("simulate_to_target", Nothing, Nothing,
                     Time(lattice_age), None))

\* simulate_step returned False and the step counter is over the limit
SimulateToTargetGiveUp ==
    /\ last_call.raised = Nothing
    /\ last_call.returned = Bool(FALSE)
    /\ StepLimitExceeded(step_count, step_limit)
    /\ LoopEnds(Call("simulate_to_target", Nothing, Nothing, Sentinel, None))

\* simulate_step returned False and the step counter is within the limit:
\* the loop goes round
SimulateToTargetAgain ==
    /\ run.pc = "test"
    /\ last_call.raised = Nothing
    /\ last_call.returned = Bool(FALSE)
    /\ ~ StepLimitExceeded(step_count, step_limit)
    /\ run' = [ run EXCEPT !.pc = "loop" ]
    /\ UNCHANGED << config, step_limit, lattice, lattice_age, step_count,
                    tf_position, rnap_positions, events, tf_path,
                    lattice_history, tf_point_logs, last_call,
                    events_applied, calls >>

\* ------------------------------------------- Lattice objects side by side
\* the fields of the object the variables hold, with the call running on it
Loaded ==
    [ lattice |-> lattice,
      lattice_age |-> lattice_age,
      step_count |-> step_count,
      tf_position |-> tf_position,
      rnap_positions |-> rnap_positions,
      events |-> events,
      tf_path |-> tf_path,
      lattice_history |-> lattice_history,
      tf_point_logs |-> tf_point_logs,
      last_call |-> last_call,
      run |-> run,
      events_applied |-> events_applied,
      calls |-> calls ]

\* the fields of object o; an object that does not exist yet is constructed
ObjectFields(o) ==
    IF o = this THEN Loaded
    ELSE IF o \in DOMAIN others THEN others[o]
    ELSE FreshObject

\* control passes to object o: the object held so far is put aside with its
\* fields and the fields of o are the ones the methods now work on
Load(o) ==
    LET f == ObjectFields(o)
    IN  /\ this' = o
        /\ others' = [ x \in (DOMAIN others \cup { this }) \ { o } |->
                         IF x = this THEN Loaded ELSE others[x] ]
        /\ lattice' = f.lattice
        /\ lattice_age' = f.lattice_age
        /\ step_count' = f.step_count
        /\ tf_position' = f.tf_position
        /\ rnap_positions' = f.rnap_positions
        /\ events' = f.events
        /\ tf_path' = f.tf_path
        /\ lattice_history' = f.lattice_history
        /\ tf_point_logs' = f.tf_point_logs
        /\ last_call' = f.last_call
        /\ run' = f.run
        /\ events_applied' = f.events_applied
        /\ calls' = f.calls
        /\ UNCHANGED << config, step_limit >>

\* ------------------------------------------------ first_passage_time_list
\* the values num_simulations is given
TrialCounts == { 1, 2 }
\* the values initial_TF_position is given: None, the first site, the
\* target site, the first position past the lattice and a negative one
SeedPositions == { None, 0, N \div 2, N, 0 - 2 }
\* a trial that raised
Raised == << "raised", None >>

TrialObject_self(t) == 0

\* the Lattice object trial t runs on: the temporary_lattice that
\* get_single_first_passage_time constructs for it
TrialObject(t) == t

\* first_passage_time_list is called on the caller's instance
FirstPassageTimeListBegin ==
    /\ fpt.pc = "idle"
    /\ this = 0
    /\ \E num_simulations \in TrialCounts,
          initial_TF_position \in SeedPositions :
          fpt' = [ fpt EXCEPT
                     !.pc = "running",
                     !.initial_TF_position = initial_TF_position,
                     !.trials = [ t \in 1 .. num_simulations |->
                                    [ pc |-> "new", result |-> Pending ] ] ]
    /\ UNCHANGED << config, step_limit, lattice, lattice_age, step_count,
                    tf_position, rnap_positions, events, tf_path,
                    lattice_history, tf_point_logs, last_call, run,
                    events_applied, calls, this, others, replay,
                    tick >>

\* first_passage_time_list called with num_simulations left at its default
\* 1e2: range() of a float raises TypeError before any trial is made
FirstPassageTimeListDefaultCount ==
    /\ fpt.pc = "idle"
    /\ this = 0
    /\ fpt' = [ fpt EXCEPT !.pc = "raised", !.raised = "TypeError" ]
    /\ UNCHANGED << config, step_limit, lattice, lattice_age, step_count,
                    tf_position, rnap_positions, events, tf_path,
                    lattice_history, tf_point_logs, last_call, run,
                    events_applied, calls, this, others, replay,
                    tick >>

\* trial t is scheduled and its position moves on
TrialAt(t, pc) ==
    fpt' = [ fpt EXCEPT !.active = t, !.trials[t].pc = pc ]

\* trial t is over with a result
TrialOver(t, result) ==
    fpt' = [ fpt EXCEPT !.active = t,
                        !.trials[t] = [ pc |-> "done", result |-> result ] ]

\* get_single_first_passage_time, trial t: the temporary_lattice is
\* constructed with the caller's parameters
TrialConstruct(t) ==
    /\ fpt.pc = "running"
    /\ fpt.trials[t].pc = "new"
    /\ Load(TrialObject(t))
    /\ TrialAt(t, "built")
    /\ UNCHANGED << replay, tick >>

\* a trial that is under way is scheduled again
Resume(t) ==
    /\ fpt.pc = "running"
    /\ fpt.active # t
    /\ fpt.trials[t].pc \notin { "new", "done" }
    /\ Load(TrialObject(t))
    /\ fpt' = [ fpt EXCEPT !.active = t ]
    /\ UNCHANGED << replay, tick >>

\* trial t is the one scheduled and is at position pc
Scheduled(t, pc) ==
    /\ fpt.pc = "running"
    /\ fpt.active = t
    /\ fpt.trials[t].pc = pc

\* get_single_first_passage_time, trial t: no initial position is given
TrialSeedNone(t) ==
    /\ Scheduled(t, "built")
    /\ fpt.initial_TF_position = None
    /\ TrialAt(t, "seeded")
    /\ UNCHANGED << config, step_limit, lattice, lattice_age, step_count,
                    tf_position, rnap_positions, events, tf_path,
                    lattice_history, tf_point_logs, last_call, run,
                    events_applied, calls, this, others, replay,
                    tick >>

\* get_single_first_passage_time, trial t: the initial position is not on
\* the lattice
TrialSeedOutside(t) ==
    /\ Scheduled(t, "built")
    /\ fpt.initial_TF_position # None
    /\ ( fpt.initial_TF_position < 0 \/ fpt.initial_TF_position >= N )
    /\ TrialOver(t, Raised)
    /\ UNCHANGED << config, step_limit, lattice, lattice_age, step_count,
                    tf_position, rnap_positions, events, tf_path,
                    lattice_history, tf_point_logs, last_call, run,
                    events_applied, calls, this, others, replay,
                    tick >>

\* the seeding as it would be if the TF were placed on the first site
\* whatever the initial position
TrialSeed_on_first_site(t) ==
    /\ Scheduled(t, "built")
    /\ fpt.initial_TF_position # None
    /\ ~ ( fpt.initial_TF_position < 0 \/ fpt.initial_TF_position >= N )
    /\ PlaceParticle("place_particle", 1, 0)
    /\ TrialAt(t, "seeded")
    /\ UNCHANGED << step_limit, run, this, others, replay,
                    tick >>

\* get_single_first_passage_time, trial t: a TF is placed on the initial
\* position (on a lattice just constructed place_particle cannot raise)
TrialSeed(t) ==
    /\ Scheduled(t, "built")
    /\ fpt.initial_TF_position # None
    /\ ~ ( fpt.initial_TF_position < 0 \/ fpt.initial_TF_position >= N )
    /\ PlaceParticle("place_particle", 1, fpt.initial_TF_position)
    /\ TrialAt(t, "seeded")
    /\ UNCHANGED << step_limit, run, this, others, replay,
                    tick >>

\* get_single_first_passage_time, trial t: simulate_to_target is called
TrialBegin(t) ==
    /\ Scheduled(t, "seeded")
    /\ SimulateToTargetBegin
    /\ TrialAt(t, "running")
    /\ UNCHANGED << this, others, replay,
                    tick >>

\* trial t: simulate_to_target goes on
TrialRun(t) ==
    /\ Scheduled(t, "running")
    /\ \/ SimulateToTargetStep
       \/ SimulateToTargetRaise
       \/ SimulateToTargetReturn
       \/ SimulateToTargetGiveUp
       \/ SimulateToTargetAgain
    /\ UNCHANGED harness

\* trial t: simulate_to_target is over, and what it returned is the
\* trial's result
TrialEnd(t) ==
    /\ Scheduled(t, "running")
    /\ run.pc = "idle"
    /\ last_call.op = "simulate_to_target"
    /\ TrialOver(t, IF last_call.raised # Nothing THEN Raised
                    ELSE last_call.returned)
    /\ UNCHANGED << config, step_limit, lattice, lattice_age, step_count,
                    tf_position, rnap_positions, events, tf_path,
                    lattice_history, tf_point_logs, last_call, run,
                    events_applied, calls, this, others, replay,
                    tick >>

\* the results of the trials, in trial order
RECURSIVE ResultsFrom(_)
ResultsFrom(t) ==
    IF t \notin DOMAIN fpt.trials THEN << >>
    ELSE << fpt.trials[t].result >> \o ResultsFrom(t + 1)

ValidTimes_truthy(first_passage_times) ==
    SelectSeq(first_passage_times,
              LAMBDA i : i # Sentinel /\ i # Time(0))

\* first_passage_time_list, valid_first_passage_times: the results that
\* are not None
ValidTimes(first_passage_times) ==
    SelectSeq(first_passage_times, LAMBDA i : i # Sentinel)

\* every trial returned: first_passage_time_list returns the valid times,
\* and control is back with the caller's instance
FirstPassageTimeListReturn ==
    /\ fpt.pc = "running"
    /\ \A t \in DOMAIN fpt.trials :
          fpt.trials[t].pc = "done" /\ fpt.trials[t].result # Raised
    /\ fpt' = [ fpt EXCEPT !.pc = "returned", !.active = 0,
                           !.returned = ValidTimes(ResultsFrom(1)) ]
    /\ Load(0)
    /\ UNCHANGED << replay, tick >>

\* a trial raised: the exception leaves first_passage_time_list
FirstPassageTimeListRaise ==
    /\ fpt.pc = "running"
    /\ \E t \in DOMAIN fpt.trials : fpt.trials[t].result = Raised
    /\ fpt' = [ fpt EXCEPT !.pc = "raised", !.active = 0,
                           !.raised = "Exception" ]
    /\ Load(0)
    /\ UNCHANGED << replay, tick >>

\* ---------------------------------------- two instances, the same draws
\* whose turn it is, and what the first instance's generator gave in its
\* last call: << tau, random_number, site >> for a step that returned,
\* << >> for a step that raised before drawing, << particle, position >>
\* for a seeding call of place_particle
Replaying(turn, draws) == [ turn |-> turn, draws |-> draws ]

\* the first instance (object 0) is seeded, before its first step
ReplaySeedFirst ==
    /\ this = 0 /\ replay.turn = "first"
    /\ calls = 0
    /\ \E particle \in 1 .. 2, position \in Sites :
          /\ PlaceParticle("place_particle", particle, position)
          /\ replay' = Replaying("second", << particle, position >>)
    /\ UNCHANGED << step_limit, run, this, others, fpt, tick >>

\* the first instance makes a step, and what its generator drew is kept
ReplayStepFirst ==
    /\ this = 0 /\ replay.turn = "first"
    /\ step_count < MaxSteps
    /\ \/ \E tau \in Taus,
             random_number \in 0 .. (TotalRate(EnumeratedEvents) - 1),
             site \in Sites \cup { None } :
               /\ SimulateStepDrawn(tau, random_number, site)
               /\ replay' = Replaying("second", << tau, random_number, site >>)
       \/ /\ SimulateStepZeroRate
          /\ replay' = Replaying("second", << >>)
    /\ UNCHANGED << step_limit, run, this, others, fpt, tick >>

\* control passes to the instance whose turn it is: the second one
\* (object 1, constructed with the same parameters) or back to the first
ReplaySwitch ==
    /\ \/ this = 0 /\ replay.turn = "second" /\ Load(1)
       \/ this = 1 /\ replay.turn = "first" /\ Load(0)
    /\ UNCHANGED << fpt, replay, tick >>

\* the second instance makes the same call, its generator giving the same
\* draws
ReplaySecond ==
    /\ this = 1 /\ replay.turn = "second"
    /\ CASE Len(replay.draws) = 0 -> SimulateStepZeroRate
         [] Len(replay.draws) = 2 ->
               PlaceParticle("place_particle", replay.draws[1], replay.draws[2])
         [] Len(replay.draws) = 3 ->
               SimulateStepDrawn(replay.draws[1], replay.draws[2],
                                 replay.draws[3])
    /\ replay' = Replaying("first", << >>)
    /\ UNCHANGED << step_limit, run, this, others, fpt, tick >>

\* -------------------------------- crowded_environment.py, the fixed ticks
\* the script's parameters: lattice length, target site, step ceiling
L == N
target_site == L \div 2
max_steps == MaxSteps

\* the variables of the Lattice objects, which the script does not use
lattice_objects ==
    << config, step_limit, lattice, lattice_age, step_count, tf_position,
       rnap_positions, events, tf_path, lattice_history, tf_point_logs,
       last_call, run, events_applied, calls, this, others, fpt, replay >>

\* history: the particle at site did action in this tick
Acted(action, site) ==
    Append(tick.acted, [ action |-> action, site |-> site ])

\* history: a step of the loop body is run in this tick
Resolved(step) == Append(tick.resolved, step)

\* the while test and steps += 1; the loop ends when steps reaches max_steps
FixedTickWhile ==
    /\ tick.pc = "while"
    /\ tick' = IF tick.steps < max_steps
               THEN [ tick EXCEPT !.pc = "rnap_attach", !.steps = @ + 1,
                                  !.acted = << >>, !.resolved = << >> ]
               ELSE [ tick EXCEPT !.pc = "exhausted" ]
    /\ UNCHANGED lattice_objects

\* Step 1: with the probability rnap_attach_rate an RNAP attaches to site
\* 0, if it is empty
FixedTickRnapAttach ==
    /\ tick.pc = "rnap_attach"
    /\ \E drawn_below_rate \in BOOLEAN :
          tick' = IF drawn_below_rate /\ tick.lattice[0] = 0
                  THEN [ tick EXCEPT
                           !.lattice[0] = 1,
                           !.rnap_positions = Append(@, 0),
                           !.acted = Acted("rnap_attach", 0),
                           !.resolved = Resolved("rnap_attach"),
                           !.new_rnap_positions = << >>,
                           !.pos_index = 0,
                           !.pc = "rnap_move" ]
                  ELSE [ tick EXCEPT
                           !.resolved = Resolved("rnap_attach"),
                           !.new_rnap_positions = << >>,
                           !.pos_index = 0,
                           !.pc = "rnap_move" ]
    /\ UNCHANGED lattice_objects

\* Step 2, one iteration of `for pos in rnap_positions`: the RNAP moves to
\* the next site if that is on the lattice and empty, leaves the lattice
\* if it is at the last site, stays otherwise
FixedTickRnapMove ==
    /\ tick.pc = "rnap_move"
    /\ tick.pos_index < Len(tick.rnap_positions)
    /\ LET pos == tick.rnap_positions[tick.pos_index + 1]
       IN  tick' =
             IF pos + 1 < L /\ tick.lattice[pos + 1] = 0
             THEN [ tick EXCEPT
                      !.lattice = [ @ EXCEPT ![pos] = 0, ![pos + 1] = 1 ],
                      !.new_rnap_positions = Append(@, pos + 1),
                      !.acted = Acted("rnap_move", pos),
                      !.resolved = Resolved("rnap_move"),
                      !.pos_index = @ + 1 ]
             ELSE IF pos + 1 = L
             THEN [ tick EXCEPT
                      !.lattice[pos] = 0,
                      !.acted = Acted("rnap_detach", pos),
                      !.resolved = Resolved("rnap_move"),
                      !.pos_index = @ + 1 ]
             ELSE [ tick EXCEPT
                      !.new_rnap_positions = Append(@, pos),
                      !.resolved = Resolved("rnap_move"),
                      !.pos_index = @ + 1 ]
    /\ UNCHANGED lattice_objects

\* Step 2, after the loop: rnap_positions = new_rnap_positions
FixedTickRnapMoved ==
    /\ tick.pc = "rnap_move"
    /\ tick.pos_index >= Len(tick.rnap_positions)
    /\ tick' = [ tick EXCEPT !.rnap_positions = tick.new_rnap_positions,
                             !.pc = "tf_attach" ]
    /\ UNCHANGED lattice_objects

\* Step 3: with the probability tf_attach_rate a TF that is off the
\* lattice attaches to one of the empty sites; np.random.choice raises
\* ValueError if there is none
FixedTickTfAttach ==
    /\ tick.pc = "tf_attach"
    /\ \E drawn_below_rate \in BOOLEAN :
          IF tick.tf_position = None /\ drawn_below_rate
          THEN LET empty_sites == { s \in Sites : tick.lattice[s] = 0 }
               IN  IF empty_sites = { }
                   THEN tick' = [ tick EXCEPT
                                    !.resolved = Resolved("tf_attach"),
                                    !.pc = "raised" ]
                   ELSE \E site \in empty_sites :
                          tick' = [ tick EXCEPT
                                      !.tf_position = site,
                                      !.lattice[site] = 2,
                                      !.acted = Acted("tf_attach", site),
                                      !.resolved = Resolved("tf_attach"),
                                      !.pc = "tf_detach" ]
          ELSE tick' = [ tick EXCEPT !.resolved = Resolved("tf_attach"),
                                     !.pc = "tf_detach" ]
    /\ UNCHANGED lattice_objects

\* Step 4: with the probability tf_detach_rate a TF on the lattice leaves it
FixedTickTfDetach ==
    /\ tick.pc = "tf_detach"
    /\ \E drawn_below_rate \in BOOLEAN :
          tick' = IF tick.tf_position # None /\ drawn_below_rate
                  THEN [ tick EXCEPT
                           !.lattice[tick.tf_position] = 0,
                           !.tf_position = None,
                           !.acted = Acted("tf_detach", tick.tf_position),
                           !.resolved = Resolved("tf_detach"),
                           !.pc = "tf_move" ]
                  ELSE [ tick EXCEPT !.resolved = Resolved("tf_detach"),
                                     !.pc = "tf_move" ]
    /\ UNCHANGED lattice_objects

\* Step 5, the TF at tf_position is put on new_position
TfMovedTo(new_position) ==
    [ tick EXCEPT
        !.lattice = [ @ EXCEPT ![tick.tf_position] = 0, ![new_position] = 2 ],
        !.tf_position = new_position,
        !.acted = Acted("tf_move", tick.tf_position),
        !.resolved = Resolved("tf_move"),
        !.pc = "check" ]

\* Step 5: a TF on the lattice tries one site to the left or right, drawn
\* at random, and the other side if an RNAP is in the way
FixedTickTfMove ==
    /\ tick.pc = "tf_move"
    /\ IF tick.tf_position = None
       THEN tick' = [ tick EXCEPT !.resolved = Resolved("tf_move"),
                                  !.pc = "check" ]
       ELSE \E move \in { 0 - 1, 1 } :
              LET new_position == tick.tf_position + move
                  reversed == tick.tf_position - move
                  stays == [ tick EXCEPT !.resolved = Resolved("tf_move"),
                                         !.pc = "check" ]
              IN  tick' =
                    IF 0 <= new_position /\ new_position < L
                    THEN IF tick.lattice[new_position] = 0
                         THEN TfMovedTo(new_position)
                         ELSE IF tick.lattice[new_position] = 1
                         THEN IF /\ 0 <= reversed /\ reversed < L
                                 /\ tick.lattice[reversed] = 0
                              THEN TfMovedTo(reversed)
                              ELSE stays
                         ELSE stays
                    ELSE stays
    /\ UNCHANGED lattice_objects

\* Step 6: the loop is left when the TF is on the target site, and steps
\* is recorded as a first passage time
FixedTickCheck ==
    /\ tick.pc = "check"
    /\ tick' = IF tick.tf_position = target_site
               THEN [ tick EXCEPT
                        !.first_passage_times = Append(@, tick.steps),
                        !.pc = "found" ]
               ELSE [ tick EXCEPT !.pc = "while" ]
    /\ UNCHANGED lattice_objects

\* ------------------------------------------------------- specifications
\* the configurations in which all six rate constants have one value
UniformConfigs ==
    { c \in Configs :
        /\ c.rnap_move_rate = c.rnap_attach_rate
        /\ c.rnap_detach_rate = c.rnap_attach_rate
        /\ c.tf_attach_rate = c.rnap_attach_rate
        /\ c.tf_detach_rate = c.rnap_attach_rate
        /\ c.tf_move_rate = c.rnap_attach_rate }

\* one instance, of a configuration with uniform rates, driven through
\* its whole public interface
InitUniform == Init /\ config \in UniformConfigs

Next ==
    \/ reset /\ UNCHANGED << step_limit, run, harness >>
    \/ calls < MaxCalls /\ simulate_step /\ UNCHANGED << step_limit, run, harness >>
    \/ calls < MaxCalls /\ place_particle /\ UNCHANGED << step_limit, run, harness >>
    \/ calls < MaxCalls /\ remove_particle /\ UNCHANGED << step_limit, run, harness >>
    \/ calls < MaxCalls /\ OnTargetCalled /\ UNCHANGED << step_limit, run, harness >>

Spec == InitUniform /\ [][Next]_vars

\* one instance, of any configuration, driven by reset() and
\* simulate_step() only
NextStep ==
    \/ reset /\ UNCHANGED << step_limit, run, harness >>
    \/ step_count < MaxSteps /\ simulate_step /\ UNCHANGED << step_limit, run, harness >>

SpecStep == Init /\ [][NextStep]_vars

\* the configurations simulate_to_target is run in: one value for the
\* three RNAP rates, one for the TF's move and detach rates, and the TF's
\* attach rate
TargetConfigs ==
    { c \in Configs :
        /\ c.rnap_move_rate = c.rnap_attach_rate
        /\ c.rnap_detach_rate = c.rnap_attach_rate
        /\ c.tf_detach_rate = c.tf_move_rate
        /\ RatesOf(c) \subseteq { 0, 1 } }

InitTarget ==
    /\ config \in TargetConfigs
    /\ step_limit \in StepLimits
    /\ Constructed
    /\ Alone

\* one instance driven by reset(), the seeding of a TF and
\* simulate_to_target(); no method is called while simulate_to_target runs
NextTarget ==
    \/ run.pc = "idle" /\ reset /\ UNCHANGED << step_limit, run, harness >>
    \/ /\ run.pc = "idle" /\ calls < MaxCalls
       /\ SeedTF /\ UNCHANGED << step_limit, run, harness >>
    \/ calls < MaxCalls /\ SimulateToTargetBegin /\ UNCHANGED harness
    \/ SimulateToTargetStep /\ UNCHANGED harness
    \/ SimulateToTargetRaise /\ UNCHANGED harness
    \/ SimulateToTargetReturn /\ UNCHANGED harness
    \/ SimulateToTargetGiveUp /\ UNCHANGED harness
    \/ SimulateToTargetAgain /\ UNCHANGED harness

SpecTarget == InitTarget /\ [][NextTarget]_vars

\* the configurations the trials are run in (one rate for the RNAPs, one
\* for the TF, not both positive), and their step limits
TrialConfigs ==
    { c \in TargetConfigs :
        /\ ~ c.logging
        /\ c.tf_attach_rate = c.tf_move_rate
        /\ ( c.rnap_attach_rate = 0 \/ c.tf_move_rate = 0 ) }
TrialLimits == { 0, 1 }

InitTrials ==
    /\ config \in TrialConfigs
    /\ step_limit \in TrialLimits
    /\ Constructed
    /\ Alone

\* one instance, fresh or with one call of simulate_step made on it, on
\* which first_passage_time_list is called; its trials run concurrently
NextTrials ==
    \/ /\ fpt.pc = "idle"
       /\ reset /\ UNCHANGED << step_limit, run, harness >>
    \/ /\ fpt.pc = "idle" /\ calls = 0
       /\ simulate_step /\ UNCHANGED << step_limit, run, harness >>
    \/ FirstPassageTimeListBegin
    \/ FirstPassageTimeListDefaultCount
    \/ \E t \in DOMAIN fpt.trials :
          \/ TrialConstruct(t)
          \/ Resume(t)
          \/ TrialSeedNone(t)
          \/ TrialSeedOutside(t)
          \/ TrialSeed(t)
          \/ TrialBegin(t)
          \/ TrialRun(t)
          \/ TrialEnd(t)
    \/ FirstPassageTimeListReturn
    \/ FirstPassageTimeListRaise

SpecTrials == InitTrials /\ [][NextTrials]_vars

\* the configurations the two instances are given
TwinConfigs == { c \in TargetConfigs : ~ c.logging }

InitTwin ==
    /\ config \in TwinConfigs
    /\ step_limit = MaxLimit
    /\ Constructed
    /\ this = 0
    /\ others = NoObjects
    /\ fpt = FptIdle
    /\ replay = Replaying("first", << >>)
    /\ tick = TickIdle

\* two instances of one configuration, the second making every call the
\* first made with the draws the first one's generator gave
NextTwin ==
    \/ ReplaySeedFirst
    \/ ReplayStepFirst
    \/ ReplaySwitch
    \/ ReplaySecond

SpecTwin == InitTwin /\ [][NextTwin]_vars

\* one simulation of the fixed-tick script
NextTick ==
    \/ FixedTickWhile
    \/ FixedTickRnapAttach
    \/ FixedTickRnapMove
    \/ FixedTickRnapMoved
    \/ FixedTickTfAttach
    \/ FixedTickTfDetach
    \/ FixedTickTfMove
    \/ FixedTickCheck

\* the Lattice variables are those of one idle instance
InitTick ==
    /\ InitUniform
    /\ ~ config.logging
    /\ config.rnap_attach_rate = 1

SpecTick == InitTick /\ [][NextTick]_vars

\* ------------------------------------------------------------ properties
\* the sites the trackers reference
TrackedRnapSites == { rnap_positions[i] : i \in 1 .. Len(rnap_positions) }
Tracked(site) == tf_position = site \/ site \in TrackedRnapSites

\* no two trackers reference the same site
TrackersDistinct ==
    /\ \A i, j \in 1 .. Len(rnap_positions) :
          i # j => rnap_positions[i] # rnap_positions[j]
    /\ tf_position \notin TrackedRnapSites

\* the last call was a simulate_step() that returned
StepReturned == last_call.op = "simulate_step" /\ last_call.raised = Nothing

\* the true sum of the rates of the first i events of a catalog
RateSum(evs, i) == TotalRate(SubSeq(evs, 1, i))

\* C1: occupancy consistency.  In every state reachable through reset,
\* simulate_step, place_particle and remove_particle, a site is encoded
\* Empty iff no tracker references it, Searcher iff the Searcher's tracked
\* position is it, Translocase iff some tracked Translocase position is it,
\* and no two trackers reference the same site.
C1_OccupancyConsistent ==
    /\ \A s \in Sites :
          /\ lattice[s] = EMPTY <=> ~ Tracked(s)
          /\ lattice[s] = TF <=> tf_position = s
          /\ lattice[s] = RNAP <=> s \in TrackedRnapSites
    /\ TrackersDistinct

\* the destination of a move event of a catalog built in the current state
MoveDestination(event) ==
    CASE event.type = "rnap_move_right" -> event.rnap_pos + 1
      [] event.type = "rnap_move_left" -> event.rnap_pos - 1
      [] event.type = "tf_left" -> tf_position - 1
      [] event.type = "tf_right" -> tf_position + 1

MoveTypes == { "rnap_move_right", "rnap_move_left", "tf_left", "tf_right" }

\* C2: exclusivity under stepping.  In every state reachable from reset()
\* by simulate_step() calls no two trackers reference the same site, and
\* the catalog collect_rates builds there holds no move of a Translocase or
\* of the Searcher to a site that is off the lattice or that a tracker
\* references.
C2_ExclusiveUnderStepping ==
    /\ TrackersDistinct
    /\ \A k \in 1 .. Len(EnumeratedEvents) :
          EnumeratedEvents[k].type \in MoveTypes =>
              /\ MoveDestination(EnumeratedEvents[k]) \in Sites
              /\ ~ Tracked(MoveDestination(EnumeratedEvents[k]))

\* C2 witness: after a step, a Translocase sits right behind another
\* Translocase (the trailing one of Scenario D)
C2_Witness ==
    /\ StepReturned
    /\ \E i, j \in 1 .. Len(rnap_positions) :
          rnap_positions[i] + 1 = rnap_positions[j]

\* C3: at most one Searcher.  In every reachable state at most one site is
\* encoded as Searcher, and a searcher-attach event is enumerated only while
\* no Searcher position is tracked.
C3_AtMostOneSearcher ==
    /\ Cardinality({ s \in Sites : lattice[s] = TF }) <= 1
    /\ \A k \in 1 .. Len(EnumeratedEvents) :
          EnumeratedEvents[k].type = "tf_attach" => tf_position = None

\* C4: monotonic translocase motion.  No catalog holds an event that moves a
\* Translocase to a lower-numbered site, and a step that neither attaches
\* nor removes a Translocase leaves every tracked Translocase where it was
\* or one site further.
C4_MonotoneTranslocase ==
    [][ /\ \A k \in 1 .. Len(EnumeratedEvents) :
              EnumeratedEvents[k].type # "rnap_move_left"
        /\ (last_call'.op = "simulate_step"
              /\ Len(rnap_positions') = Len(rnap_positions))
           => \A i \in 1 .. Len(rnap_positions) :
                 rnap_positions'[i] \in
                     { rnap_positions[i], rnap_positions[i] + 1 } ]_vars

\* C5: event selection follows the rates.  After a step that returned, the
\* cumulative boundary of the i-th event of self.events is the sum of the
\* rates of the events up to it, and a draw u below the total rate selects
\* event i exactly when the sum before it <= u < the sum up to it.
C5_SelectionFollowsRates ==
    StepReturned =>
        \A i \in 1 .. Len(events) :
            /\ events[i].cum_rate = RateSum(events, i)
            /\ \A u \in 0 .. (TotalRate(events) - 1) :
                  ChosenIndex(events, u) = i
                      <=> (RateSum(events, i - 1) <= u /\ u < RateSum(events, i))

\* C6: no starvation.  After a step that returned, every event of
\* self.events with a positive rate is selected by some draw below the
\* total rate.
C6_NoStarvation ==
    StepReturned =>
        \A i \in 1 .. Len(events) :
            events[i].rate > 0 =>
                \E u \in 0 .. (TotalRate(events) - 1) :
                    ChosenIndex(events, u) = i

\* C7: an event whose configured rate is 0 is never executed.
C7_ZeroRateNeverExecuted ==
    StepReturned => last_call.event.rate > 0

\* the two cases C7 names, which hold of the code: with rnap_attach_rate 0
\* no Translocase is ever tracked or encoded, and with tf_detach_rate 0 a
\* step never takes a tracked Searcher off the lattice
C7_NamedCases ==
    [][ /\ config.rnap_attach_rate = 0 =>
              /\ rnap_positions' = << >>
              /\ \A s \in Sites : lattice'[s] # RNAP
        /\ (config.tf_detach_rate = 0 /\ tf_position # None
              /\ last_call'.op = "simulate_step")
           => tf_position' # None ]_vars

\* C8: time/step monotonicity.  A simulate_step() call never decreases the
\* elapsed time or the step counter, whatever event it executes.
C8_TimeStepMonotone ==
    [][ last_call'.op = "simulate_step" =>
            /\ lattice_age' >= lattice_age
            /\ step_count' >= step_count ]_vars

\* C8 witness: a step has detached the Searcher and the elapsed time is
\* still positive
C8_Witness ==
    /\ StepReturned
    /\ last_call.event.type = "tf_detach"
    /\ lattice_age > 0
    /\ step_count > 1

\* C9: the step counter counts events.  step_count equals the number of
\* events applied since the last reset().
C9_StepCountCountsEvents == step_count = events_applied

\* the state reset() is to leave
Cleared ==
    /\ \A s \in Sites : lattice[s] = EMPTY
    /\ lattice_age = 0
    /\ step_count = 0
    /\ tf_position = None
    /\ rnap_positions = << >>
    /\ events = << >>
    /\ tf_path = << >>
    /\ lattice_history = << >>
    /\ tf_point_logs.tf_detach_points = << >>
    /\ tf_point_logs.tf_attach_points = << >>
    /\ tf_point_logs.tf_block_points = << >>

\* C10: reset() postcondition.  Whatever the state before, reset() leaves
\* the lattice empty, time and step counter 0, no Searcher, no
\* Translocases, no events and no logs; a reset() right after a reset()
\* changes nothing.
C10_ResetPostcondition ==
    [][ /\ last_call'.op = "reset" => Cleared'
        /\ (last_call.op = "reset" /\ last_call'.op = "reset")
           => UNCHANGED vars ]_vars

\* C10 witness: a reset() has just run on an instance
C10_Witness == last_call.op = "reset" /\ Cleared


\* simulate_to_target is over and returned a value
TargetReturned ==
    /\ last_call.op = "simulate_to_target"
    /\ run.pc = "idle"
    /\ last_call.raised = Nothing

\* the steps simulate_to_target has done since it was entered
StepsDone == step_count - run.entry_count

\* C11: simulate_to_target returns either the elapsed time or the sentinel;
\* it returns the elapsed time only if the TF is on the target site at the
\* return, and the sentinel only if the TF is not on the target site and the
\* step counter exceeds the step limit.
C11_ResultContract ==
    TargetReturned =>
        /\ last_call.returned \in { Time(lattice_age), Sentinel }
        /\ last_call.returned = Time(lattice_age) =>
               /\ tf_position # None
               /\ tf_position = config.target_site
        /\ last_call.returned = Sentinel =>
               /\ tf_position # config.target_site
               /\ step_count > step_limit

\* the elapsed time was returned after two steps of the loop
C11_Witness ==
    /\ TargetReturned
    /\ last_call.returned = Time(lattice_age)
    /\ StepsDone = 2

\* simulate_to_target is over: it returned or raised
TargetEnded ==
    /\ last_call.op = "simulate_to_target"
    /\ run.pc = "idle"

\* C12: Scenario C.  With step_limit 1 and a TF that cannot reach the
\* target (it is absent and cannot attach, while the RNAPs always have an
\* event), simulate_to_target called on a fresh instance returns the
\* sentinel without raising, and the step counter is exactly 1 at the return.
C12_ScenarioC ==
    ( /\ TargetEnded
      /\ run.fresh
      /\ step_limit = 1
      /\ config.tf_attach_rate = 0
      /\ config.rnap_attach_rate > 0 ) =>
        /\ last_call.raised = Nothing
        /\ last_call.returned = Sentinel
        /\ step_count = 1

\* C13: already-on-target shortcut.  A call of simulate_to_target made
\* while the TF's tracked position is the target site returns the current
\* elapsed time at once, performs no step and leaves lattice, trackers,
\* elapsed time, step counter and logs unchanged; after reset and a forced
\* placement on the target it returns 0 with step counter 0, and a call
\* repeated after a success returns the same time again.
C13_OnTargetShortcut ==
    [][ ( /\ run.pc = "idle"
          /\ last_call'.op = "simulate_to_target"
          /\ tf_position = config.target_site ) =>
            /\ run'.pc = "idle"
            /\ last_call'.raised = Nothing
            /\ last_call'.returned = Time(lattice_age)
            /\ UNCHANGED << lattice, tf_position, rnap_positions, lattice_age,
                            step_count, events_applied, events, tf_path,
                            lattice_history, tf_point_logs >>
            /\ ( calls = 1 /\ last_call.op = "place_particle" ) =>
                   ( last_call'.returned = Time(0) /\ step_count' = 0 )
            /\ ( last_call.op = "simulate_to_target"
                 /\ last_call.returned[1] = "time" ) =>
                   last_call'.returned = last_call.returned ]_vars

\* Scenario B: the call made after reset and a placement on the target
\* has returned
C13_Witness ==
    /\ TargetReturned
    /\ calls = 2
    /\ tf_position = config.target_site
    /\ last_call.returned = Time(0)
    /\ step_count = 0

\* the larger of two numbers
Max(a, b) == IF a >= b THEN a ELSE b

\* the most steps a call of simulate_to_target may do
StepBudget == Max(1, step_limit + 1 - run.entry_count)

\* C14: termination of simulate_to_target.  Entered with the step counter
\* at c, it does at most max(1, step_limit + 1 - c) steps: while it runs and
\* when it ends (with a time, the sentinel or the zero-total-rate error) the
\* steps done are within that budget, a step is only begun below the
\* budget, and while it runs it can always go on.
C14_BoundedSteps ==
    /\ ( run.pc # "idle" \/ TargetEnded ) => StepsDone <= StepBudget
    /\ run.pc = "loop" => StepsDone < StepBudget
    /\ run.pc = "loop" => ENABLED SimulateToTargetStep
    /\ run.pc = "test" =>
           ENABLED ( \/ SimulateToTargetRaise \/ SimulateToTargetReturn
                     \/ SimulateToTargetGiveUp \/ SimulateToTargetAgain )
    /\ TargetEnded =>
           \/ last_call.raised = "ZeroTotalRate"
           \/ last_call.raised = Nothing
              /\ last_call.returned \in { Time(lattice_age), Sentinel }

\* the sentinel was returned by a call entered with the step counter
\* already over the limit, after its one step
C14_Witness ==
    /\ TargetReturned
    /\ last_call.returned = Sentinel
    /\ run.entry_count > step_limit
    /\ StepsDone = 1

\* C15: a zero total rate is fatal and applies nothing.  Whenever the rates
\* of the events enumerated in the current state sum to 0 (an empty catalog
\* included), simulate_step raises 'The lattice cannot do anything', and a
\* simulate_step that raises it leaves the lattice array, the TF and RNAP
\* trackers and the elapsed time as they were and applies no event.
C15_ZeroRateFatal ==
    [][ /\ ( last_call'.op = "simulate_step"
             /\ TotalRate(EnumeratedEvents) = 0 ) =>
               last_call'.raised = "ZeroTotalRate"
        /\ ( last_call'.op = "simulate_step"
             /\ last_call'.raised = "ZeroTotalRate" ) =>
               /\ TotalRate(EnumeratedEvents) = 0
               /\ UNCHANGED << lattice, tf_position, rnap_positions,
                               lattice_age, events_applied >> ]_vars

\* the error was raised on a lattice that holds an RNAP, after events were
\* applied
C15_Witness ==
    /\ last_call.op = "simulate_step"
    /\ last_call.raised = "ZeroTotalRate"
    /\ rnap_positions # << >>
    /\ events_applied >= 1

\* C16: site validation.  For every site outside [0, N), the site N
\* included, place_particle of a valid kind and remove_particle fail with
\* the 'outside of the lattice' error and leave the lattice array and the
\* trackers unchanged.
C16_SiteValidation ==
    [][ \A particle \in 0 .. 2, position \in Positions \ Sites :
          ( \/ PlaceParticle("place_particle", particle, position)
            \/ PlaceParticle("remove_particle", 0, position) ) =>
              /\ last_call'.raised = "OutsideOfTheLattice"
              /\ UNCHANGED << lattice, tf_position, rnap_positions >> ]_vars

\* C17: a second TF is rejected atomically.  Whenever a TF is tracked and
\* place_particle is asked to place a TF on a valid site other than the
\* tracked one (empty or occupied by an RNAP), the call fails with 'There
\* cannot be more than one TF' and leaves the lattice array and the
\* trackers unchanged.
C17_SecondSearcherRejected ==
    [][ \A position \in Sites :
          ( /\ tf_position # None
            /\ position # tf_position
            /\ PlaceParticle("place_particle", 1, position) ) =>
              /\ last_call'.raised = "MoreThanOneTF"
              /\ UNCHANGED << lattice, tf_position, rnap_positions >> ]_vars

\* C18: forced placement agrees with the engine's encoding.  After reset()
\* and one place_particle that returned, a site that holds a particle
\* either is the TF's tracked position, holds the code execute_event writes
\* for a TF and makes on_target() true iff it is the target site, or is
\* tracked in rnap_positions and holds the code execute_event writes for
\* an RNAP.
C18_PlacementEncoding ==
    ( /\ calls = 1
      /\ last_call.op = "place_particle"
      /\ last_call.raised = Nothing ) =>
        \A s \in Sites :
            lattice[s] # EMPTY =>
                \/ /\ tf_position = s
                   /\ lattice[s] = TF
                   /\ on_target <=> s = config.target_site
                \/ /\ s \in TrackedRnapSites
                   /\ tf_position # s
                   /\ lattice[s] = RNAP

\* C19: the value simulate_step returns.  Every call of simulate_step that
\* returns has applied exactly one event, and returns True if and only if
\* the TF's tracked position after that event is the target site; it
\* returns False whenever no TF is tracked.
C19_StepReturnValue ==
    [][ ( last_call'.op = "simulate_step" /\ last_call'.raised = Nothing ) =>
          /\ events_applied' = events_applied + 1
          /\ last_call'.returned \in { Bool(TRUE), Bool(FALSE) }
          /\ last_call'.returned = Bool(TRUE) <=>
                 tf_position' = config.target_site
          /\ tf_position' = None => last_call'.returned = Bool(FALSE) ]_vars

\* a step returned False although the target site is occupied (by an RNAP)
C19_Witness ==
    /\ StepReturned
    /\ last_call.returned = Bool(FALSE)
    /\ lattice[config.target_site] = RNAP

\* the 'rate' fields of a list of events, added up from its head
RECURSIVE SumOfRateFields(_)
SumOfRateFields(evs) ==
    IF evs = << >> THEN 0 ELSE Head(evs).rate + SumOfRateFields(Tail(evs))

\* C20: total-rate conservation.  On every call of collect_rates that
\* returns, the total rate it returns is the sum of the 'rate' fields of
\* the events it leaves in self.events.
C20_TotalRateConservation ==
    StepReturned => last_call.total_rate = SumOfRateFields(events)

\* a total of at least 3 was returned for a catalog of at least three
\* events whose rates differ
C20_Witness ==
    /\ StepReturned
    /\ Len(events) >= 3
    /\ last_call.total_rate >= 3
    /\ \E i, j \in 1 .. Len(events) :
           events[i].rate > 0 /\ events[j].rate > events[i].rate

\* the lattice array, the trackers, the elapsed time and the step counter
\* of Lattice object o
InstanceState(o) ==
    LET f == ObjectFields(o)
    IN  << f.lattice, f.tf_position, f.rnap_positions, f.lattice_age,
           f.step_count >>

\* C21: independent trials.  A trial starts on an instance that was just
\* constructed; while first_passage_time_list runs, whatever the
\* interleaving of its trials, the instance it was called on keeps its
\* lattice, trackers, elapsed time and step counter, and a step not made
\* by trial t leaves the lattice, trackers, elapsed time and step counter
\* of trial t's instance as they were.
C21_IndependentTrials ==
    [][ fpt.pc = "running" =>
          /\ InstanceState(0)' = InstanceState(0)
          /\ \A t \in DOMAIN fpt.trials :
                /\ fpt'.active # t =>
                      InstanceState(TrialObject(t))' =
                          InstanceState(TrialObject(t))
                /\ ( fpt.trials[t].pc = "new" /\ fpt'.trials[t].pc = "built" )
                      => InstanceState(TrialObject(t))' =
                            << FreshObject.lattice, None, << >>, 0, 0 >> ]_vars

\* two trials are under way on instances that differ, both after a step,
\* next to a caller's instance that has itself made a step
C21_Witness ==
    /\ fpt.pc = "running"
    /\ DOMAIN fpt.trials = { 1, 2 }
    /\ fpt.trials[1].pc = "running"
    /\ fpt.trials[2].pc = "running"
    /\ InstanceState(1) # InstanceState(2)
    /\ InstanceState(1)[5] >= 1
    /\ InstanceState(2)[5] >= 1
    /\ InstanceState(0)[5] = 1

\* the trials that returned an elapsed time
SuccessfulTrials ==
    { t \in DOMAIN fpt.trials : fpt.trials[t].result[1] = "time" }

\* the k-th successful trial, in trial order
KthSuccessful(k) ==
    CHOOSE t \in SuccessfulTrials :
        Cardinality({ u \in SuccessfulTrials : u <= t }) = k

\* C22: failed trials are discarded, never counted as zero.  What
\* first_passage_time_list returns is the results of the trials that did
\* not return the sentinel, in trial order: as many entries as successful
\* trials, the k-th being the k-th successful trial's time, a time of 0
\* included.
C22_FailedTrialsDiscarded ==
    fpt.pc = "returned" =>
        /\ Len(fpt.returned) = Cardinality(SuccessfulTrials)
        /\ \A k \in 1 .. Len(fpt.returned) :
               fpt.returned[k] = fpt.trials[KthSuccessful(k)].result
        /\ \A t \in DOMAIN fpt.trials :
               \/ fpt.trials[t].result = Sentinel
               \/ fpt.trials[t].result[1] = "time"

\* of two trials the first returned the sentinel and the second reached
\* the target at time 0: the list returned holds the time 0 alone
C22_Witness ==
    /\ fpt.pc = "returned"
    /\ DOMAIN fpt.trials = { 1, 2 }
    /\ fpt.trials[1].result = Sentinel
    /\ fpt.trials[2].result = Time(0)
    /\ fpt.returned = << Time(0) >>

\* the events of one type in the catalog collect_rates would build now
EnumeratedOfType(type) ==
    { i \in 1 .. Len(EnumeratedEvents) : EnumeratedEvents[i].type = type }

\* how many events of a type are to be enumerated
OneIf(condition) == IF condition THEN 1 ELSE 0

\* the sites that hold no particle
EmptySites == { s \in Sites : lattice[s] = EMPTY }

\* C23: the TF's events.  In every reachable state: with no TF tracked,
\* collect_rates enumerates one tf_attach event if and only if some site is
\* empty, with exactly the empty sites as its candidates and the attach
\* rate, and no other TF event; with the TF tracked at s it enumerates
\* tf_left iff s-1 >= 0 and site s-1 is empty, tf_right iff s+1 < N and
\* site s+1 is empty (both at the move rate), exactly one tf_detach (at the
\* detach rate) and no tf_attach.
C23_SearcherEvents ==
    LET evs == EnumeratedEvents
        s == tf_position
    IN  IF tf_position = None
        THEN /\ Cardinality(EnumeratedOfType("tf_attach")) =
                    OneIf(EmptySites # { })
             /\ \A i \in EnumeratedOfType("tf_attach") :
                    /\ evs[i].possible_sites = EmptySites
                    /\ evs[i].rate = config.tf_attach_rate
             /\ EnumeratedOfType("tf_left") = { }
             /\ EnumeratedOfType("tf_right") = { }
             /\ EnumeratedOfType("tf_detach") = { }
        ELSE /\ Cardinality(EnumeratedOfType("tf_left")) =
                    OneIf(s - 1 >= 0 /\ lattice[s - 1] = EMPTY)
             /\ Cardinality(EnumeratedOfType("tf_right")) =
                    OneIf(s + 1 < N /\ lattice[s + 1] = EMPTY)
             /\ Cardinality(EnumeratedOfType("tf_detach")) = 1
             /\ EnumeratedOfType("tf_attach") = { }
             /\ \A i \in EnumeratedOfType("tf_left") \cup
                          EnumeratedOfType("tf_right") :
                    evs[i].rate = config.tf_move_rate
             /\ \A i \in EnumeratedOfType("tf_detach") :
                    evs[i].rate = config.tf_detach_rate

\* a TF between the lattice's first site and an occupied site: neither
\* move is enumerated
C23_Witness ==
    /\ tf_position = 0
    /\ lattice[1] # EMPTY
    /\ EnumeratedOfType("tf_left") = { }
    /\ EnumeratedOfType("tf_right") = { }
    /\ Cardinality(EnumeratedOfType("tf_detach")) = 1

\* a call of simulate_step() has just returned
StepReturns ==
    /\ calls' = calls + 1
    /\ last_call'.op = "simulate_step"
    /\ last_call'.raised = Nothing

\* the list without its k-th entry (1-based), the others in their order
Without(list, k) ==
    [ i \in 1 .. (Len(list) - 1) |-> IF i < k THEN list[i] ELSE list[i + 1] ]

\* C24: the life of an RNAP.  Whenever simulate_step() returns: if it
\* tracks one RNAP more than before, the event was rnap_attach, site 0 was
\* empty and the new tracker entry is 0, after the old entries; if it
\* tracks one fewer, the event was an rnap_detach of an RNAP tracked at the
\* last site N-1, and the tracker is the old one without that entry; the
\* tracker never changes length otherwise.  And the catalog the step
\* sampled from has an rnap_detach only for an RNAP at N-1 and no
\* rnap_move_right for one.
C24_RnapLifecycle ==
    [][ StepReturns =>
          LET event == last_call'.event
          IN  /\ Len(rnap_positions') > Len(rnap_positions) =>
                    /\ event.type = "rnap_attach"
                    /\ lattice[0] = EMPTY
                    /\ rnap_positions' = rnap_positions \o << 0 >>
              /\ Len(rnap_positions') < Len(rnap_positions) =>
                    /\ event.type = "rnap_detach"
                    /\ event.rnap_pos = N - 1
                    /\ rnap_positions[event.rnap_index + 1] = N - 1
                    /\ rnap_positions' =
                          Without(rnap_positions, event.rnap_index + 1)
              /\ event.type \notin { "rnap_attach", "rnap_detach" } =>
                    Len(rnap_positions') = Len(rnap_positions)
              /\ \A i \in 1 .. Len(events') :
                    /\ events'[i].type = "rnap_detach" =>
                          events'[i].rnap_pos = N - 1
                    /\ events'[i].type = "rnap_move_right" =>
                          events'[i].rnap_pos # N - 1 ]_vars

\* an RNAP at the last site has detached and left another one tracked
C24_Witness ==
    /\ last_call.op = "simulate_step"
    /\ last_call.raised = Nothing
    /\ last_call.event.type = "rnap_detach"
    /\ last_call.event.rnap_pos = N - 1
    /\ Len(rnap_positions) = 1
    /\ rnap_positions[1] # N - 1

\* the site is on the lattice and holds no particle
EmptySite(site) == site \in Sites /\ lattice[site] = EMPTY

\* the event's rnap_index is an index of the tracker list and the RNAP
\* tracked there is at the event's rnap_pos
RefersToTrackedRnap(event) ==
    /\ event.rnap_index + 1 \in 1 .. Len(rnap_positions)
    /\ rnap_positions[event.rnap_index + 1] = event.rnap_pos

\* C25: the event a step executes is feasible in the state it is executed
\* in.  Whenever simulate_step() returns, the event it executed is an entry
\* of the catalog the call built, and in the state the call started from:
\* for rnap_attach site 0 was empty; for an RNAP move or detach the event's
\* rnap_index referred to the RNAP tracked at its rnap_pos, the site moved
\* to was on the lattice and empty, and a detach was at the last site; for
\* a TF move the TF was tracked and the site moved to was on the lattice and
\* empty; for tf_detach the TF was tracked; for tf_attach no TF was tracked
\* and the site it landed on was one of the event's candidate sites and
\* empty.
C25_ExecutedEventFeasible ==
    [][ StepReturns =>
          LET event == last_call'.event
          IN  /\ \E i \in 1 .. Len(events') : events'[i] = event
              /\ event.type = "rnap_attach" => EmptySite(0)
              /\ event.type = "rnap_move_right" =>
                    /\ RefersToTrackedRnap(event)
                    /\ EmptySite(event.rnap_pos + 1)
              /\ event.type = "rnap_move_left" =>
                    /\ RefersToTrackedRnap(event)
                    /\ EmptySite(event.rnap_pos - 1)
              /\ event.type = "rnap_detach" =>
                    /\ RefersToTrackedRnap(event)
                    /\ event.rnap_pos = N - 1
              /\ event.type = "tf_left" =>
                    tf_position # None /\ EmptySite(tf_position - 1)
              /\ event.type = "tf_right" =>
                    tf_position # None /\ EmptySite(tf_position + 1)
              /\ event.type = "tf_detach" => tf_position # None
              /\ event.type = "tf_attach" =>
                    /\ tf_position = None
                    /\ tf_position' \in event.possible_sites
                    /\ EmptySite(tf_position') ]_vars

\* a TF has attached to the one site that was left empty
C25_Witness ==
    /\ last_call.op = "simulate_step"
    /\ last_call.raised = Nothing
    /\ last_call.event.type = "tf_attach"
    /\ Cardinality(last_call.event.possible_sites) = 1
    /\ tf_position \in last_call.event.possible_sites
    /\ \A s \in Sites : lattice[s] # EMPTY

\* the event types execute_event has a case for
EventTypes ==
    { "rnap_attach", "rnap_move_left", "rnap_move_right", "rnap_detach",
      "tf_attach", "tf_left", "tf_right", "tf_detach" }

\* C26: the selection finds an event.  In every reachable state in which
\* collect_rates returns a positive total rate, every draw from 0 up to
\* (not including) the total rate is below the cum_rate of some event of
\* the catalog, the largest cum_rate being at least the total rate, so
\* 'No even was chosen' is not raised; and every event of the catalog has a
\* type execute_event has a case for, so the default case is not taken.
C26_SelectionSucceeds ==
    LET catalog == WithCumRates(EnumeratedEvents)
        total_rate == TotalRate(EnumeratedEvents)
    IN  total_rate > 0 =>
          /\ \A random_number \in 0 .. (total_rate - 1) :
                ChosenIndex(catalog, random_number) \in 1 .. Len(catalog)
          /\ \E i \in 1 .. Len(catalog) : catalog[i].cum_rate >= total_rate
          /\ \A i \in 1 .. Len(catalog) : catalog[i].type \in EventTypes

\* a step whose draw selected the last of at least three events
C26_Witness ==
    /\ last_call.op = "simulate_step"
    /\ last_call.raised = Nothing
    /\ Len(events) >= 3
    /\ last_call.event = events[Len(events)]
    /\ last_call.total_rate > events[Len(events)].rate

\* the tracker list without the entries equal to position
RnapsElsewhere(position) ==
    SelectSeq(rnap_positions, LAMBDA tracked : tracked # position)

\* C27: overwriting or removing an occupant clears its tracker.  Whenever
\* place_particle(particle, position) or remove_particle(position) is
\* called on a valid site that holds a particle, the call raises nothing
\* but 'There cannot be more than one TF', and when it returns the TF's
\* tracker is cleared iff the TF was tracked at that site, the RNAP tracked
\* at that site (if any) is gone from rnap_positions, the other trackers
\* are as they were, and only the newly placed particle is added.
C27_OccupantTrackerCleared ==
    [][ \A particle \in 0 .. 2, position \in Sites :
          ( /\ lattice[position] # EMPTY
            /\ \/ PlaceParticle("place_particle", particle, position)
               \/ particle = 0 /\ PlaceParticle("remove_particle", 0, position) )
          =>
            /\ last_call'.raised \in { Nothing, "MoreThanOneTF" }
            /\ last_call'.raised = Nothing =>
                  /\ tf_position' =
                        IF particle = 1 THEN position
                        ELSE IF tf_position = position THEN None
                        ELSE tf_position
                  /\ rnap_positions' =
                        RnapsElsewhere(position) \o
                        (IF particle = 2 THEN << position >> ELSE << >>) ]_vars

\* the newest entry of self.lattice_history, read by value
LastHistoryEntry == HistoryEntry(Len(lattice_history))

\* C30: snapshots are frozen.  With logging on, whenever simulate_step()
\* returns, the entry it appends to lattice_history holds the lattice
\* array as the step left it, and the array held by every entry that was
\* there before reads the same after the step as it did before it.
C30_SnapshotsFrozen ==
    [][ ( config.logging /\ StepReturns ) =>
          /\ Len(lattice_history') = Len(lattice_history) + 1
          /\ LoggedLattice(Len(lattice_history))' = lattice'
          /\ \A k \in 1 .. Len(lattice_history) :
                LoggedLattice(k)' = LoggedLattice(k) ]_vars

\* the times of a log are in non-decreasing order
TimesOrdered(times) ==
    \A k \in 1 .. (Len(times) - 1) : times[k] <= times[k + 1]

\* C29: the discipline of the two logs.  With logging off both logs are
\* empty after every call.  With logging on, on every call other than
\* reset(): a simulate_step() that returns appends exactly one entry to
\* each log, the (elapsed time, TF position) sample to tf_path and the
\* (elapsed time, lattice) entry to lattice_history, and a call that raises
\* appends none; every entry that was in a log before the call is still
\* there and reads the same; and the times of each log are non-decreasing.
C29_LogDiscipline ==
    [][ /\ ~ config.logging =>
              tf_path' = << >> /\ lattice_history' = << >>
        /\ ( config.logging /\ last_call'.op = "simulate_step" ) =>
              /\ IF StepReturns
                 THEN /\ tf_path' =
                           Append(tf_path, << lattice_age', tf_position' >>)
                      /\ Len(lattice_history') = Len(lattice_history) + 1
                      /\ LastHistoryEntry' =
                           << lattice_age', lattice' >>
                 ELSE /\ Len(tf_path') = Len(tf_path)
                      /\ Len(lattice_history') = Len(lattice_history)
              /\ \A k \in 1 .. Len(tf_path) : tf_path'[k] = tf_path[k]
              /\ \A k \in 1 .. Len(lattice_history) :
                    HistoryEntry(k)' = HistoryEntry(k)
              /\ TimesOrdered([ k \in 1 .. Len(tf_path') |-> tf_path'[k][1] ])
              /\ TimesOrdered(lattice_history') ]_vars

ChangedSites == { s \in Sites : lattice'[s] # lattice[s] }

\* the tracker list is as it was but for the entry at 0-based index,
\* which is moved by delta
OnlyEntryMoved(index, delta) ==
    /\ Len(rnap_positions') = Len(rnap_positions)
    /\ \A i \in 1 .. Len(rnap_positions) :
          rnap_positions'[i] =
             IF i = index + 1 THEN rnap_positions[i] + delta
             ELSE rnap_positions[i]

\* C31: the frame of one event.  Whenever simulate_step() returns, the
\* event it executed changed no site but the ones it names and no tracker
\* but the one of the particle it acts on: rnap_attach changes site 0 only
\* and appends one tracker entry; an RNAP move changes only its rnap_pos
\* and the site next to it in the direction moved, and only the entry at
\* its rnap_index, by one; rnap_detach changes only its rnap_pos and removes
\* only the entry at its rnap_index; the RNAP events leave tf_position
\* alone; a TF event changes only the sites the TF was and is tracked at,
\* and leaves rnap_positions alone.
C31_EventFrame ==
    [][ StepReturns =>
          LET event == last_call'.event
          IN  /\ event.type = "rnap_attach" =>
                    /\ ChangedSites \subseteq { 0 }
                    /\ rnap_positions' = rnap_positions \o << 0 >>
                    /\ tf_position' = tf_position
              /\ event.type = "rnap_move_right" =>
                    /\ ChangedSites \subseteq
                          { event.rnap_pos, event.rnap_pos + 1 }
                    /\ OnlyEntryMoved(event.rnap_index, 1)
                    /\ tf_position' = tf_position
              /\ event.type = "rnap_move_left" =>
                    /\ ChangedSites \subseteq
                          { event.rnap_pos, event.rnap_pos - 1 }
                    /\ OnlyEntryMoved(event.rnap_index, 0 - 1)
                    /\ tf_position' = tf_position
              /\ event.type = "rnap_detach" =>
                    /\ ChangedSites \subseteq { event.rnap_pos }
                    /\ rnap_positions' =
                          Without(rnap_positions, event.rnap_index + 1)
                    /\ tf_position' = tf_position
              /\ event.type \in { "tf_attach", "tf_left", "tf_right",
                                  "tf_detach" } =>
                    /\ ChangedSites \subseteq { tf_position, tf_position' }
                    /\ rnap_positions' = rnap_positions ]_vars

\* the second of two tracked RNAPs has moved right, the first stayed
C31_Witness ==
    /\ last_call.op = "simulate_step"
    /\ last_call.raised = Nothing
    /\ last_call.event.type = "rnap_move_right"
    /\ last_call.event.rnap_index = 1
    /\ Len(rnap_positions) = 2
    /\ rnap_positions[2] = last_call.event.rnap_pos + 1
    /\ lattice[last_call.event.rnap_pos] = EMPTY

\* C32: the frame of on_target() and reset().  A call of on_target()
\* returns whether the TF is tracked at the target site and changes no
\* field of the instance; a call of reset() changes no parameter of the
\* configuration (target site, the six rates, logging flag), nor the step
\* limit, nor the length of the lattice.
C32_QueryAndResetFrame ==
    [][ /\ ( calls' = calls + 1 /\ last_call'.op = "on_target" ) =>
              /\ last_call'.returned = Bool(tf_position = config.target_site)
              /\ UNCHANGED << config, step_limit, lattice, lattice_age,
                              step_count, tf_position, rnap_positions, events,
                              tf_path, lattice_history, tf_point_logs >>
        /\ last_call'.op = "reset" =>
              /\ config' = config
              /\ step_limit' = step_limit
              /\ DOMAIN lattice' = DOMAIN lattice ]_vars

\* reset() has run on an instance constructed with logging on and
\* positive rates
C32_Witness ==
    /\ last_call.op = "reset"
    /\ config.logging
    /\ config.tf_move_rate > 0
    /\ lattice_history = << >>

\* object o is as its constructor left it and no method was called on it
Untouched(o) == ObjectFields(o) = FreshObject

\* C33: the start of a seeded trial.  For a trial given an initial TF
\* position p: if p is below 0 or not below N, the trial never gets past
\* the check, ends by raising, and no call (no step, no placement) is ever
\* made on its lattice; if p is a site, the trial when seeded tracks the TF
\* at p, has every other site empty and site p occupied, tracks no RNAP and
\* has elapsed time 0 and step counter 0; and if p is the target site the
\* trial ends with the elapsed time 0 and step counter 0.
C33_SeededTrialStart ==
    \A t \in DOMAIN fpt.trials :
        LET p == fpt.initial_TF_position
            f == ObjectFields(TrialObject(t))
            trial == fpt.trials[t]
        IN  p # None =>
              /\ ( p < 0 \/ p >= N ) =>
                    /\ trial.pc \in { "new", "built", "done" }
                    /\ trial.pc = "done" => trial.result = Raised
                    /\ Untouched(TrialObject(t))
              /\ ( p >= 0 /\ p < N /\ trial.pc = "seeded" ) =>
                    /\ f.tf_position = p
                    /\ f.lattice[p] # EMPTY
                    /\ \A s \in Sites \ { p } : f.lattice[s] = EMPTY
                    /\ f.rnap_positions = << >>
                    /\ f.lattice_age = 0
                    /\ f.step_count = 0
              /\ ( p = config.target_site /\ trial.pc = "done" ) =>
                    /\ trial.result = Time(0)
                    /\ f.step_count = 0
                    /\ f.events_applied = 0

\* one trial seeded on the target site is over, and one seeded on it is
\* about to call simulate_to_target
C33_Witness ==
    /\ fpt.initial_TF_position = config.target_site
    /\ Len(fpt.trials) = 2
    /\ fpt.trials[1].pc = "done"
    /\ fpt.trials[1].result = Time(0)
    /\ fpt.trials[2].pc = "seeded"
    /\ ObjectFields(TrialObject(2)).tf_position = config.target_site

\* what the RNAPs did in the current tick of the fixed-tick script: no
\* RNAP that attached at site 0 moved on or left from site 0 afterwards
AttachedRnapStays ==
    \A i, j \in 1 .. Len(tick.acted) :
        ( i < j /\ tick.acted[i].action = "rnap_attach" ) =>
            ~ ( /\ tick.acted[j].action \in { "rnap_move", "rnap_detach" }
                /\ tick.acted[j].site = 0 )

\* no RNAP that moved to a site moved on or left from that site afterwards
RnapMovesOnce ==
    \A i, j \in 1 .. Len(tick.acted) :
        ( i < j /\ tick.acted[i].action = "rnap_move" ) =>
            ~ ( /\ tick.acted[j].action \in { "rnap_move", "rnap_detach" }
                /\ tick.acted[j].site = tick.acted[i].site + 1 )

\* a TF that attached did not detach or move afterwards
AttachedTfStays ==
    \A i, j \in 1 .. Len(tick.acted) :
        ( i < j /\ tick.acted[i].action = "tf_attach" ) =>
            tick.acted[j].action \notin { "tf_detach", "tf_move" }

\* C34: fixed ticks, one action per particle per tick.  At every point of
\* the loop body, among the actions done in the current tick: an RNAP that
\* attached at site 0 has not moved as well, no RNAP has moved more than
\* one site, and a TF that attached has not detached or moved as well.
C34_OneActionPerTick ==
    AttachedRnapStays /\ RnapMovesOnce /\ AttachedTfStays

\* step earlier is never run after step later in the current tick
RunsBefore(earlier, later) ==
    \A i, j \in 1 .. Len(tick.resolved) :
        i < j => ~ ( tick.resolved[i] = later /\ tick.resolved[j] = earlier )

\* C35: fixed ticks, the order within a tick.  In every tick the RNAPs'
\* movement and detachment is run before the RNAP attachment, the TF's
\* detachment before the TF's movement, and every RNAP step before every
\* TF step.
C35_OrderWithinTick ==
    /\ RunsBefore("rnap_move", "rnap_attach")
    /\ RunsBefore("tf_detach", "tf_move")
    /\ \A rnap_step \in { "rnap_attach", "rnap_move" },
          tf_step \in { "tf_attach", "tf_detach", "tf_move" } :
            RunsBefore(rnap_step, tf_step)
====
